---- MODULE Spec2Model ----
(***************************************************************************)
(* Model of the OpenSearch administration client of                        *)
(* opensearchmanager/curator.go.  Every public method of Client is a       *)
(* sequence of synchronous HTTP exchanges; one action of the model is one  *)
(* exchange (request sent by doRequest, response received) together with   *)
(* the code of the method that runs before the next exchange or the        *)
(* return.  The cluster is the environment: it chooses every response.     *)
(*                                                                         *)
(* Strings are sequences of tokens; a character of an index name or of a   *)
(* pattern is a one-character token.                                       *)
(***************************************************************************)
EXTENDS Integers, Sequences, FiniteSets, TLC

\* ------------------------------------------------------------------------
\* Strings

Drop(s, n) == SubSeq(s, n + 1, Len(s))

\* The printable ASCII characters, in byte order from 32 (space) to 126.
\* Byte 96 cannot be written inside a TLA+ string; the token "<backtick>"
\* stands for it.
Ascii ==
    << " ", "!", "\"", "#", "$", "%", "&", "'", "(", ")", "*", "+",
       ",", "-", ".", "/", "0", "1", "2", "3", "4", "5", "6", "7",
       "8", "9", ":", ";", "<", "=", ">", "?", "@", "A", "B", "C",
       "D", "E", "F", "G", "H", "I", "J", "K", "L", "M", "N", "O",
       "P", "Q", "R", "S", "T", "U", "V", "W", "X", "Y", "Z", "[",
       "\\", "]", "^", "_", "<backtick>", "a", "b", "c", "d", "e", "f", "g",
       "h", "i", "j", "k", "l", "m", "n", "o", "p", "q", "r", "s",
       "t", "u", "v", "w", "x", "y", "z", "{", "|", "}", "~" >>

\* Byte value of a character: characters are compared, and ranges lo-hi
\* tested, by this value.  Names and patterns are ASCII.
Code(c) == 31 + (CHOOSE i \in 1..Len(Ascii) : Ascii[i] = c)

RECURSIVE Contains(_, _)
Contains(s, c) ==
    IF Len(s) = 0 THEN FALSE
    ELSE IF s[1] = c THEN TRUE ELSE Contains(Tail(s), c)

\* strings.HasPrefix
HasPrefix(s, prefix) ==
    /\ Len(s) >= Len(prefix)
    /\ SubSeq(s, 1, Len(prefix)) = prefix

\* strings.Join(elems, ",")
RECURSIVE Join(_)
Join(elems) ==
    IF Len(elems) = 0 THEN <<>>
    ELSE IF Len(elems) = 1 THEN elems[1]
    ELSE elems[1] \o <<",">> \o Join(Tail(elems))

\* ------------------------------------------------------------------------
\* path/filepath.Match (Unix build), as called by DeleteIndices and
\* CloseIndices.  Result: [matched, err]; the callers discard err.

BadPattern == [matched |-> FALSE, err |-> TRUE]

\* scanChunk: leading stars, then the text up to the next star outside [ ].
RECURSIVE SkipStars(_)
SkipStars(pattern) ==
    IF Len(pattern) > 0 /\ pattern[1] = "*" THEN SkipStars(Tail(pattern))
    ELSE pattern

RECURSIVE ScanEnd(_, _, _)
ScanEnd(pattern, i, inrange) ==
    \* i is the 0-based index of the Go loop; the result is the cut position
    IF i >= Len(pattern) THEN i
    ELSE LET c == pattern[i + 1] IN
         IF c = "\\" THEN
             ScanEnd(pattern, (IF i + 1 < Len(pattern) THEN i + 1 ELSE i) + 1, inrange)
         ELSE IF c = "[" THEN ScanEnd(pattern, i + 1, TRUE)
         ELSE IF c = "]" THEN ScanEnd(pattern, i + 1, FALSE)
         ELSE IF c = "*" /\ ~inrange THEN i
         ELSE ScanEnd(pattern, i + 1, inrange)

scanChunk(pattern) ==
    LET p == SkipStars(pattern)
        i == ScanEnd(p, 0, FALSE)
        j == IF i > Len(p) THEN Len(p) ELSE i
    IN  [star  |-> Len(p) < Len(pattern),
         chunk |-> SubSeq(p, 1, j),
         rest  |-> Drop(p, j)]

\* getEsc: one (possibly escaped) character of a character class.
getEsc(chunk) ==
    IF Len(chunk) = 0 \/ chunk[1] = "-" \/ chunk[1] = "]"
    THEN [r |-> 0, rest |-> <<>>, err |-> TRUE]
    ELSE LET c1 == IF chunk[1] = "\\" THEN Tail(chunk) ELSE chunk IN
         IF Len(c1) = 0 THEN [r |-> 0, rest |-> <<>>, err |-> TRUE]
         ELSE [r |-> Code(c1[1]), rest |-> Tail(c1), err |-> Len(c1) = 1]

\* The for loop over the ranges of one class; r is the subject character.
RECURSIVE ClassLoop(_, _, _, _)
ClassLoop(chunk, r, match, nrange) ==
    IF Len(chunk) > 0 /\ chunk[1] = "]" /\ nrange > 0
    THEN [rest |-> Tail(chunk), match |-> match, err |-> FALSE]
    ELSE LET lo == getEsc(chunk) IN
         IF lo.err THEN [rest |-> <<>>, match |-> FALSE, err |-> TRUE]
         ELSE IF lo.rest[1] = "-"
         THEN LET hi == getEsc(Tail(lo.rest)) IN
              IF hi.err THEN [rest |-> <<>>, match |-> FALSE, err |-> TRUE]
              ELSE ClassLoop(hi.rest, r, match \/ (lo.r <= r /\ r <= hi.r), nrange + 1)
         ELSE ClassLoop(lo.rest, r, match \/ lo.r = r, nrange + 1)

\* matchChunk: does chunk match a prefix of s?  Result [rest, ok, err].
RECURSIVE ChunkLoop(_, _, _)
ChunkLoop(chunk, s, failed0) ==
    IF Len(chunk) = 0
    THEN IF failed0 THEN [rest |-> <<>>, ok |-> FALSE, err |-> FALSE]
                    ELSE [rest |-> s, ok |-> TRUE, err |-> FALSE]
    ELSE LET failed == failed0 \/ Len(s) = 0
             s1 == IF failed THEN s ELSE Tail(s)
         IN
         IF chunk[1] = "[" THEN
             LET r   == IF failed THEN 0 ELSE Code(s[1])
                 c1  == Tail(chunk)
                 neg == Len(c1) > 0 /\ c1[1] = "^"
                 c2  == IF neg THEN Tail(c1) ELSE c1
                 cl  == ClassLoop(c2, r, FALSE, 0)
             IN  IF cl.err THEN [rest |-> <<>>, ok |-> FALSE, err |-> TRUE]
                 ELSE ChunkLoop(cl.rest, s1, failed \/ (cl.match = neg))
         ELSE IF chunk[1] = "?" THEN
             ChunkLoop(Tail(chunk), s1, failed \/ s[1] = "/")
         ELSE
             LET c1 == IF chunk[1] = "\\" THEN Tail(chunk) ELSE chunk IN
             IF Len(c1) = 0 THEN [rest |-> <<>>, ok |-> FALSE, err |-> TRUE]
             ELSE ChunkLoop(Tail(c1), s1, failed \/ c1[1] # s[1])

matchChunk(chunk, s) == ChunkLoop(chunk, s, FALSE)

\* The trailing loop of Match: the rest of the pattern is only syntax-checked.
RECURSIVE SyntaxErr(_)
SyntaxErr(pattern) ==
    IF Len(pattern) = 0 THEN FALSE
    ELSE LET sc == scanChunk(pattern) IN
         matchChunk(sc.chunk, <<>>).err \/ SyntaxErr(sc.rest)

RECURSIVE MatchLoop(_, _)
RECURSIVE StarLoop(_, _, _, _)

\* for i := 0; i < len(name) && name[i] != Separator; i++ { ... }
StarLoop(chunk, rest, name, i) ==
    IF i < Len(name) /\ name[i + 1] # "/"
    THEN LET m == matchChunk(chunk, Drop(name, i + 1)) IN
         IF m.ok THEN
             IF Len(rest) = 0 /\ Len(m.rest) > 0
             THEN StarLoop(chunk, rest, name, i + 1)
             ELSE MatchLoop(rest, m.rest)
         ELSE IF m.err THEN BadPattern
         ELSE StarLoop(chunk, rest, name, i + 1)
    ELSE [matched |-> FALSE, err |-> SyntaxErr(rest)]

MatchLoop(pattern, name) ==
    IF Len(pattern) = 0 THEN [matched |-> Len(name) = 0, err |-> FALSE]
    ELSE LET sc == scanChunk(pattern) IN
         IF sc.star /\ Len(sc.chunk) = 0
         THEN [matched |-> ~Contains(name, "/"), err |-> FALSE]
         ELSE LET m == matchChunk(sc.chunk, name) IN
              IF m.ok /\ (Len(m.rest) = 0 \/ Len(sc.rest) > 0)
              THEN MatchLoop(sc.rest, m.rest)
              ELSE IF m.err THEN BadPattern
              ELSE IF sc.star THEN StarLoop(sc.chunk, sc.rest, name, 0)
              ELSE [matched |-> FALSE, err |-> SyntaxErr(sc.rest)]

Match(pattern, name) == MatchLoop(pattern, name)

\* ------------------------------------------------------------------------
\* Time.  An instant is a whole number of days since the zero time.Time
\* (0001-01-01T00:00:00Z); t.Before(u) is t < u.

ZeroTime == 0

\* time.Now(): 2026-10-30 is day 739918 of the proleptic Gregorian calendar.
NowDay == 739918

\* ------------------------------------------------------------------------
\* Input universes of the exploration.

MaxListing == 2
MaxSettingsKeys == 2

a1 == <<"a", "1">>
a2 == <<"a", "2">>
b1 == <<"b", "1">>
c1 == <<"c", "1">>

\* A record of the _cat/indices array.  created is the field
\* creation.date.string: rfc3339 says whether the text is a well-formed
\* RFC3339 timestamp, day is the instant the index was really created.
WireRecord(name, docs, isRfc, day) ==
    [index |-> name, status |-> "open", docs |-> docs, size |-> "1kb",
     created |-> [rfc3339 |-> isRfc, day |-> day]]

\* A docs.count of twenty digits followed by a letter: the digits leave the
\* range of uint64 before the letter is read.
HugeDocs ==
    << "9", "9", "9", "9", "9", "9", "9", "9", "9", "9",
       "9", "9", "9", "9", "9", "9", "9", "9", "9", "9", "x" >>

WireRecords ==
    { WireRecord(a1, <<"7">>, TRUE,  NowDay - 31),
      WireRecord(a1, HugeDocs, TRUE, NowDay - 30),
      WireRecord(a2, <<"7">>, TRUE,  NowDay - 5),
      WireRecord(a2, <<"-", "2">>, FALSE, NowDay - 5),
      WireRecord(b1, <<"7">>, TRUE,  NowDay - 40),
      WireRecord(b1, <<>>,    FALSE, NowDay) }

RECURSIVE SeqsUpTo(_, _)
SeqsUpTo(S, n) ==
    IF n = 0 THEN { <<>> }
    ELSE LET shorter == SeqsUpTo(S, n - 1) IN
         shorter \cup { Append(s, x) : s \in shorter, x \in S }

\* The cluster lists every index once.
Listings ==
    { l \in SeqsUpTo(WireRecords, MaxListing) :
        \A i, j \in 1..Len(l) : i # j => l[i].index # l[j].index }

Patterns ==
    { a1, c1, <<"*">>, <<"a", "*">>, <<"*", "1">>, <<"?", "1">>,
      <<"[", "a", "b", "]", "2">>, <<"[", "^", "a", "]", "*">>,
      <<"a", "[", "0", "-", "9", "]">>, <<"a", "[">>, <<"\\", "b", "1">> }

Prefixes == { <<>>, <<"a">>, <<"b", "1">>, <<"c">> }
Days == { -1, 0, 30, 800000 }

Sources == { a1, b1, <<"a", "*">> }
Targets == { c1, a1 }

\* Go values held in a map[string]interface{}.
GoInt(n)  == [t |-> "int", v |-> <<ToString(n)>>]
GoBool(b) == [t |-> "bool", v |-> <<IF b THEN "true" ELSE "false">>]
GoStr(s)  == [t |-> "string", v |-> s]
GoNil     == [t |-> "nil", v |-> <<>>]
GoChan    == [t |-> "chan", v |-> <<>>]

SettingKeys ==
    { "number_of_shards", "number_of_replicas", "index.blocks.write",
      "index.number_of_replicas", "index.number_of_shards", "index.codec" }

SettingValues(k) ==
    CASE k = "number_of_shards"   -> { GoInt(1) }
      [] k = "number_of_replicas" -> { GoInt(1), GoStr(<<"2", "\t">>), GoChan }
      [] k = "index.blocks.write" -> { GoBool(FALSE) }
      [] k = "index.number_of_replicas" -> { GoInt(5) }
      [] k = "index.number_of_shards"   -> { GoInt(9) }
      [] OTHER -> { GoStr(<<"b", "<", "\"", "\n", "<0x01>", "<U+2028>">>) }

SettingsMaps ==
    UNION { { m \in [D -> UNION { SettingValues(k) : k \in D }] :
                \A k \in D : m[k] \in SettingValues(k) }
            : D \in { D \in SUBSET SettingKeys : Cardinality(D) <= MaxSettingsKeys } }

\* What the cluster may answer to one request: a transport-level error, or
\* a status code with a body that is a JSON array or a JSON object.
StatusCodes == { 200, 400, 503 }

TransportError == [transport |-> TRUE, status |-> 0, body |-> "none"]

\* Answers to the catalog request: the body may or may not be an array.
AnyResponses ==
    { TransportError } \cup
    { [transport |-> FALSE, status |-> s, body |-> b] :
        s \in StatusCodes, b \in { "array", "object" } }

\* Answers to the other requests: the body is only ever read as text.
Responses == { r \in AnyResponses : r.body # "array" }

\* ------------------------------------------------------------------------
\* Errors are the texts of Go error values, as token sequences; nil is <<>>.

NoErr == <<>>
ErrTransport == <<"transport error">>
ErrDecode == <<"json: cannot decode">>
ErrMarshal == <<"json: unsupported type">>

\* ------------------------------------------------------------------------
\* encoding/json.Marshal of the request bodies.  A JSON document is a
\* function from key paths to the JSON text of the leaves.

\* The control characters, in byte order from 0 to 31.  Tab, line feed,
\* form feed and carriage return are written as in Go; "<0x08>" (backspace)
\* and the like stand for the others.
Control ==
    << "<0x00>", "<0x01>", "<0x02>", "<0x03>", "<0x04>", "<0x05>", "<0x06>", "<0x07>",
       "<0x08>", "\t", "\n", "<0x0b>", "\f", "\r", "<0x0e>", "<0x0f>",
       "<0x10>", "<0x11>", "<0x12>", "<0x13>", "<0x14>", "<0x15>", "<0x16>", "<0x17>",
       "<0x18>", "<0x19>", "<0x1a>", "<0x1b>", "<0x1c>", "<0x1d>", "<0x1e>", "<0x1f>" >>

\* Characters outside ASCII that the encoder treats specially: the line and
\* paragraph separators, and a byte that is not part of a valid UTF-8
\* encoding.
LineSeparator == "<U+2028>"
ParagraphSeparator == "<U+2029>"
InvalidUTF8 == "<invalid>"

Hex == << "0", "1", "2", "3", "4", "5", "6", "7",
          "8", "9", "a", "b", "c", "d", "e", "f" >>

IsControl(c) == \E i \in 1..Len(Control) : Control[i] = c

\* Byte value of an ASCII character, control characters included
Byte(c) ==
    IF IsControl(c) THEN (CHOOSE i \in 1..Len(Control) : Control[i] = c) - 1
    ELSE Code(c)

\* What the encoder writes for one character of a string (escapeHTML is on
\* in Marshal).  The quote and the backslash get a backslash; backspace,
\* form feed, line feed, carriage return and tab get their short escape
\* (\b and \f as of Go 1.22; earlier releases write \u0008 and \u000c); the
\* other bytes below 0x20 and <, > and & are written \u00 and two hex
\* digits; U+2028 and U+2029 are written \u2028 and \u2029; an invalid
\* byte is written \ufffd.  Every other character is copied.
EscapeChar(c) ==
    CASE c \in { "\"", "\\" } -> <<"\\", c>>
      [] c = "<0x08>" -> <<"\\", "b">>
      [] c = "\f"     -> <<"\\", "f">>
      [] c = "\n"     -> <<"\\", "n">>
      [] c = "\r"     -> <<"\\", "r">>
      [] c = "\t"     -> <<"\\", "t">>
      [] c = LineSeparator      -> <<"\\", "u", "2", "0", "2", "8">>
      [] c = ParagraphSeparator -> <<"\\", "u", "2", "0", "2", "9">>
      [] c = InvalidUTF8        -> <<"\\", "u", "f", "f", "f", "d">>
      [] OTHER ->
           IF IsControl(c) \/ c \in { "<", ">", "&" }
           THEN <<"\\", "u", "0", "0",
                  Hex[(Byte(c) \div 16) + 1], Hex[(Byte(c) % 16) + 1]>>
           ELSE <<c>>

RECURSIVE EscapeString(_)
EscapeString(s) ==
    IF Len(s) = 0 THEN <<>> ELSE EscapeChar(s[1]) \o EscapeString(Tail(s))

jsonValue(g) ==
    CASE g.t = "string" -> <<"\"">> \o EscapeString(g.v) \o <<"\"">>
      [] g.t = "nil"    -> <<"null">>
      [] OTHER          -> g.v

Marshalable(m) == \A k \in DOMAIN m : m[k].t # "chan"

\* map[string]interface{}{root: m}
MarshalUnder(root, m) ==
    [err  |-> IF Marshalable(m) THEN NoErr ELSE ErrMarshal,
     json |-> [p \in { <<root, k>> : k \in DOMAIN m } |-> jsonValue(m[p[2]])]]

\* settings[k] of a Go map: the zero value nil when k is absent
Lookup(m, k) == IF k \in DOMAIN m THEN m[k] ELSE GoNil

EmptyMap == [k \in {} |-> GoNil]

\* ------------------------------------------------------------------------
\* Requests built by the methods, as handed to doRequest.

Request(method, path, hasBody, json) ==
    [method |-> method, path |-> path, hasBody |-> hasBody, json |-> json]

NoBody == [p \in {} |-> <<>>]

ListRequest == Request("GET", <<"/_cat/indices?format=json">>, FALSE, NoBody)
DeleteRequest(names) == Request("DELETE", <<"/">> \o Join(names), FALSE, NoBody)
CloseRequest(names) ==
    Request("POST", <<"/">> \o Join(names) \o <<"/_close">>, FALSE, NoBody)
OpenRequest(name) == Request("POST", <<"/">> \o name \o <<"/_open">>, FALSE, NoBody)
ShrinkRequest(source, target, json) ==
    Request("POST", <<"/">> \o source \o <<"/_shrink/">> \o target, TRUE, json)
SettingsRequest(name, json) ==
    Request("PUT", <<"/">> \o name \o <<"/_settings">>, TRUE, json)
RolloverRequest(alias, json) ==
    Request("POST", <<"/">> \o alias \o <<"/_rollover">>, TRUE, json)
AliasesRequest(json) == Request("POST", <<"/_aliases">>, TRUE, json)
ReindexRequest(json) == Request("POST", <<"/_reindex">>, TRUE, json)

Exchange(req, resp) == [req |-> req, resp |-> resp]

\* ------------------------------------------------------------------------
\* ListIndices

\* strconv.ParseInt(s, 10, 64) with the error dropped.  An int64 is its
\* sign and the decimal digits of its magnitude, without leading zeros.
Int64(neg, digits) == [neg |-> neg, digits |-> digits]

Int64Zero == Int64(FALSE, <<"0">>)

\* 1<<63 - 1 and 1<<63, the largest magnitudes of a positive and of a
\* negative int64
MaxInt64Digits ==
    << "9", "2", "2", "3", "3", "7", "2", "0", "3", "6",
       "8", "5", "4", "7", "7", "5", "8", "0", "7" >>

MinInt64Digits ==
    << "9", "2", "2", "3", "3", "7", "2", "0", "3", "6",
       "8", "5", "4", "7", "7", "5", "8", "0", "8" >>

\* 1<<64 - 1, the largest uint64
MaxUint64Digits ==
    << "1", "8", "4", "4", "6", "7", "4", "4", "0", "7",
       "3", "7", "0", "9", "5", "5", "1", "6", "1", "5" >>

IsDigit(c) == c \in { "0", "1", "2", "3", "4", "5", "6", "7", "8", "9" }

RECURSIVE StripZeros(_)
StripZeros(digits) ==
    IF Len(digits) > 1 /\ digits[1] = "0" THEN StripZeros(Tail(digits))
    ELSE digits

\* a > b for magnitudes without leading zeros
RECURSIVE DigitsGreater(_, _)
DigitsGreater(a, b) ==
    IF Len(a) # Len(b) THEN Len(a) > Len(b)
    ELSE IF Len(a) = 0 THEN FALSE
    ELSE IF a[1] # b[1] THEN Code(a[1]) > Code(b[1])
    ELSE DigitsGreater(Tail(a), Tail(b))

\* ParseUint(s, 10, 64): the digits are read from the left into n.  The
\* first character that is not a digit is a syntax error (value 0); the
\* first digit that takes n beyond the largest uint64 is a range error
\* (value 1<<64 - 1), returned before the rest of s is read.
RECURSIVE ParseUintLoop(_, _)
ParseUintLoop(s, n) ==
    IF Len(s) = 0 THEN [digits |-> n, err |-> "none"]
    ELSE IF ~IsDigit(s[1]) THEN [digits |-> <<"0">>, err |-> "syntax"]
    ELSE LET n1 == StripZeros(Append(n, s[1])) IN
         IF DigitsGreater(n1, MaxUint64Digits)
         THEN [digits |-> MaxUint64Digits, err |-> "range"]
         ELSE ParseUintLoop(Tail(s), n1)

ParseUint(s) ==
    IF Len(s) = 0 THEN [digits |-> <<"0">>, err |-> "syntax"]
    ELSE ParseUintLoop(s, <<"0">>)

ParseInt(s) ==
    LET signed == Len(s) > 0 /\ s[1] \in { "-", "+" }
        neg    == signed /\ s[1] = "-"
        un     == ParseUint(IF signed THEN Tail(s) ELSE s)
    IN  \* the empty string, and a syntax error of ParseUint: the value is 0
        IF Len(s) = 0 \/ un.err = "syntax" THEN Int64Zero
        \* !neg && un >= cutoff, neg && un > cutoff: the nearest int64
        ELSE IF ~neg /\ DigitsGreater(un.digits, MaxInt64Digits)
        THEN Int64(FALSE, MaxInt64Digits)
        ELSE IF neg /\ DigitsGreater(un.digits, MinInt64Digits)
        THEN Int64(TRUE, MinInt64Digits)
        ELSE Int64(neg /\ un.digits # <<"0">>, un.digits)

ParseTimeZeroIsNow(created) == IF created.rfc3339 THEN created.day ELSE NowDay

\* time.Parse(time.RFC3339, s) with the error dropped
ParseTime(created) == IF created.rfc3339 THEN created.day ELSE ZeroTime

IndexInfo(w) ==
    [Name |-> w.index, Status |-> w.status, DocsCount |-> ParseInt(w.docs),
     StoreSize |-> w.size, CreateTime |-> ParseTime(w.created)]

\* The result (list, err) of ListIndices for a response whose body, when it
\* is a JSON array, holds the records of wire.
ListIndicesResult(resp, w) ==
    IF resp.transport THEN [list |-> <<>>, err |-> ErrTransport]
    ELSE IF resp.body # "array" THEN [list |-> <<>>, err |-> ErrDecode]
    ELSE [list |-> [i \in 1..Len(w) |-> IndexInfo(w[i])], err |-> NoErr]

\* ------------------------------------------------------------------------
\* Selection loops

RECURSIVE MatchNamesReversed(_, _)
MatchNamesReversed(pattern, list) ==
    IF Len(list) = 0 THEN <<>>
    ELSE IF Match(pattern, list[1].Name).matched
         THEN Append(MatchNamesReversed(pattern, Tail(list)), list[1].Name)
         ELSE MatchNamesReversed(pattern, Tail(list))

\* for _, idx := range indices { if matched { append(idx.Name) } }
RECURSIVE MatchNames(_, _)
MatchNames(pattern, list) ==
    IF Len(list) = 0 THEN <<>>
    ELSE IF Match(pattern, list[1].Name).matched
         THEN <<list[1].Name>> \o MatchNames(pattern, Tail(list))
         ELSE MatchNames(pattern, Tail(list))

RECURSIVE OldNamesInclusive(_, _, _)
OldNamesInclusive(prefix, cut, list) ==
    IF Len(list) = 0 THEN <<>>
    ELSE IF HasPrefix(list[1].Name, prefix) /\ list[1].CreateTime <= cut
         THEN <<list[1].Name>> \o OldNamesInclusive(prefix, cut, Tail(list))
         ELSE OldNamesInclusive(prefix, cut, Tail(list))

\* for _, idx := range indices { if HasPrefix && Before(cutoff) { append } }
RECURSIVE OldNames(_, _, _)
OldNames(prefix, cut, list) ==
    IF Len(list) = 0 THEN <<>>
    ELSE IF HasPrefix(list[1].Name, prefix) /\ list[1].CreateTime < cut
         THEN <<list[1].Name>> \o OldNames(prefix, cut, Tail(list))
         ELSE OldNames(prefix, cut, Tail(list))

\* time.Now().AddDate(0, 0, -days)
Cutoff(days) == NowDay - days

NoneSelectedNever(names) == FALSE

\* len(toDelete) == 0, len(toClose) == 0
NoneSelected(names) == Len(names) = 0

\* ------------------------------------------------------------------------
\* The error each method derives from the response to its request.

\* err != nil, then resp.StatusCode >= 400 with the body as the text
CheckResponse(resp, msg) ==
    IF resp.transport THEN ErrTransport
    ELSE IF resp.status >= 400 THEN <<msg, resp.body>>
    ELSE NoErr

DeleteErr(resp)   == CheckResponse(resp, "failed to delete indices: ")
CloseErr(resp)    == CheckResponse(resp, "failed to close indices: ")
CleanupErr(resp)  == CheckResponse(resp, "failed to delete old indices: ")
AliasesErr(resp)  == CheckResponse(resp, "failed to manage aliases: ")
RolloverErr(resp) == CheckResponse(resp, "failed to rollover index: ")
ReindexErr(resp)  == CheckResponse(resp, "failed to reindex: ")

OpenErrStatusIgnored(resp) == IF resp.transport THEN ErrTransport ELSE NoErr

OpenErr(resp)     == CheckResponse(resp, "failed to open index: ")

SettingsErrStatusIgnored(resp) == IF resp.transport THEN ErrTransport ELSE NoErr

SettingsErr(resp) == CheckResponse(resp, "failed to update settings: ")

ShrinkErrAbove400(resp) ==
    IF resp.transport THEN <<"failed to execute shrink request: ">> \o ErrTransport
    ELSE IF resp.status > 400
         THEN <<"shrink failed with status ", ToString(resp.status), ": ", resp.body>>
    ELSE NoErr

\* ShrinkIndex, step 3
ShrinkErr(resp) ==
    IF resp.transport THEN <<"failed to execute shrink request: ">> \o ErrTransport
    ELSE IF resp.status >= 400
         THEN <<"shrink failed with status ", ToString(resp.status), ": ", resp.body>>
    ELSE NoErr

NoMatchErr(pattern) == <<"no indices match pattern: ">> \o pattern

Wrap(msg, err) == <<msg>> \o err

\* ------------------------------------------------------------------------
\* Settings of the shrink workflow

mergeSettingsLeftBiased(base, override) ==
    [k \in DOMAIN base \cup DOMAIN override |->
        IF k \in DOMAIN base THEN base[k] ELSE override[k]]

\* mergeSettings: copy base, then copy override over it
mergeSettings(base, override) ==
    [k \in DOMAIN base \cup DOMAIN override |->
        IF k \in DOMAIN override THEN override[k] ELSE base[k]]

\* The literal passed as override in step 2
ShrinkOverride(settings) ==
    [k \in { "index.blocks.write", "index.number_of_replicas",
             "index.number_of_shards" } |->
        CASE k = "index.blocks.write"       -> GoBool(TRUE)
          [] k = "index.number_of_replicas" -> GoInt(0)
          [] OTHER                          -> Lookup(settings, "number_of_shards")]

ShrinkSettings(settings) == mergeSettings(settings, ShrinkOverride(settings))

FinalSettingsKeepZero(settings) ==
    [k \in { "index.number_of_replicas", "index.blocks.write" } |->
        IF k = "index.number_of_replicas"
        THEN ShrinkSettings(settings)["index.number_of_replicas"]
        ELSE GoNil]

\* finalSettings of step 5
FinalSettings(settings) ==
    [k \in { "index.number_of_replicas", "index.blocks.write" } |->
        IF k = "index.number_of_replicas"
        THEN Lookup(settings, "number_of_replicas")
        ELSE GoNil]

\* ------------------------------------------------------------------------
\* Bodies of the pass-through methods

\* An AliasAction: Add and Remove are maps, omitted from the JSON when empty.
AliasAction(add, remove) == [Add |-> add, Remove |-> remove]

AliasPair(index, alias) ==
    [k \in { "index", "alias" } |-> IF k = "index" THEN GoStr(index) ELSE GoStr(alias)]

AliasActionLists ==
    { <<>>,
      << AliasAction(AliasPair(a1, <<"c">>), EmptyMap) >>,
      << AliasAction(AliasPair(a1, <<"c">>), EmptyMap),
         AliasAction(EmptyMap, AliasPair(a2, <<"c">>)) >>,
      << AliasAction([k \in { "index", "alias", "routing" } |->
                        CASE k = "index" -> GoStr(a1)
                          [] k = "alias" -> GoStr(<<"a", "&", "b">>)
                          [] OTHER       -> GoStr(<<"1">>)], EmptyMap) >>,
      << AliasAction([k \in { "index" } |-> GoChan], EmptyMap) >> }

\* map[string]interface{}{"actions": actions}: every key of every Add and
\* Remove map is sent.
AliasesBody(actions) ==
    LET Index(p) == CHOOSE i \in 1..Len(actions) : ToString(i - 1) = p[2]
        MapOf(p) == IF p[3] = "add" THEN actions[Index(p)].Add
                                    ELSE actions[Index(p)].Remove
        present ==
            UNION { { <<"actions", ToString(i - 1), "add", k>> :
                         k \in DOMAIN actions[i].Add }
                    \cup
                    { <<"actions", ToString(i - 1), "remove", k>> :
                         k \in DOMAIN actions[i].Remove }
                    : i \in 1..Len(actions) }
    IN  [err  |-> IF \A i \in 1..Len(actions) :
                       Marshalable(actions[i].Add) /\ Marshalable(actions[i].Remove)
                  THEN NoErr ELSE ErrMarshal,
         json |-> [p \in present |-> jsonValue(MapOf(p)[p[4]])]]

ConditionMaps ==
    { EmptyMap,
      [k \in { "max_age", "max_docs" } |->
          IF k = "max_age" THEN GoStr(<<"7", "d">>) ELSE GoInt(1000000)],
      [k \in { "max_docs" } |-> GoChan] }

QueryMaps ==
    { EmptyMap, [k \in { "match_all" } |-> GoNil], [k \in { "term" } |-> GoChan] }

ReindexBody(source, dest, query) ==
    LET q == MarshalUnder("query", query)
        paths == { <<"source", "index">>, <<"dest", "index">> }
                 \cup { <<"source", "query", k>> : k \in DOMAIN query }
    IN  [err  |-> q.err,
         json |-> [p \in paths |->
                     IF p = <<"source", "index">> THEN jsonValue(GoStr(source))
                     ELSE IF p = <<"dest", "index">> THEN jsonValue(GoStr(dest))
                     ELSE jsonValue(query[p[3]])]]

\* ------------------------------------------------------------------------
\* State

VARIABLES
    pc,        \* "idle", the exchange the running method performs next, or
               \* "returned" when the caller holds the result of its call
    args,      \* method and arguments of the running (or last) call
    wire,      \* records of the catalog array received by the call
    indices,   \* local variable indices: the list ListIndices returned
    selected,  \* local variable toDelete / toClose
               \* (the three are kept, for inspection, until the caller goes on)
    requests,  \* exchanges of the call so far, in order
    ret,       \* what the last call returned; done is FALSE while one runs
    closed     \* indices the call has left closed on the cluster: closed by
               \* an accepted _close and neither reopened nor deleted since

vars == <<pc, args, wire, indices, selected, requests, ret, closed>>

NoArgs ==
    [op |-> "none", pattern |-> <<>>, prefix |-> <<>>, days |-> 0,
     source |-> <<>>, target |-> <<>>, name |-> <<>>, settings |-> EmptyMap]

Running == [done |-> FALSE, err |-> NoErr, list |-> <<>>]
Returned(err) == [done |-> TRUE, err |-> err, list |-> <<>>]

Init ==
    /\ pc = "idle"
    /\ args = NoArgs
    /\ wire = <<>>
    /\ indices = <<>>
    /\ selected = <<>>
    /\ requests = <<>>
    /\ ret = Running
    /\ closed = {}

\* The cluster's reaction to a request it accepted.
Succeeded(resp) == ~resp.transport /\ resp.status < 400

Range(seq) == { seq[i] : i \in 1..Len(seq) }

ClusterClose(resp, names) ==
    IF Succeeded(resp) THEN closed \cup Range(names) ELSE closed
ClusterOpen(resp, name) ==
    IF Succeeded(resp) THEN closed \ { name } ELSE closed
ClusterDelete(resp, names) ==
    IF Succeeded(resp) THEN closed \ Range(names) ELSE closed

\* A catalog response: the array of a decodable body is any listing.
CatalogResponses ==
    { [resp |-> r, wire |-> w] : r \in AnyResponses, w \in Listings }

\* ShrinkIndex reads only the names of the catalog.
ShrinkCatalogResponses ==
    { c \in CatalogResponses :
        \A i \in 1..Len(c.wire) : c.wire[i].created.rfc3339 /\ c.wire[i].docs = <<"7">> }

CatalogChoice(c) ==
    (c.resp.transport \/ c.resp.body # "array") => c.wire = <<>>

\* ------------------------------------------------------------------------
\* ListIndices

ListIndices ==
    /\ pc = "idle"
    /\ \E c \in CatalogResponses :
        /\ CatalogChoice(c)
        /\ LET r == ListIndicesResult(c.resp, c.wire) IN
            /\ args' = [NoArgs EXCEPT !.op = "ListIndices"]
            /\ requests' = << Exchange(ListRequest, c.resp) >>
            /\ wire' = c.wire
            /\ indices' = <<>>
            /\ selected' = <<>>
            /\ ret' = [done |-> TRUE, err |-> r.err, list |-> r.list]
            /\ pc' = "returned"
            /\ UNCHANGED closed

\* ------------------------------------------------------------------------
\* DeleteIndices: the listing and the selection, then the bulk DELETE

DeleteIndices_List ==
    /\ pc = "idle"
    /\ \E pattern \in Patterns, c \in CatalogResponses :
        /\ CatalogChoice(c)
        /\ LET r == ListIndicesResult(c.resp, c.wire)
               toDelete == MatchNames(pattern, r.list)
           IN
            /\ args' = [NoArgs EXCEPT !.op = "DeleteIndices", !.pattern = pattern]
            /\ requests' = << Exchange(ListRequest, c.resp) >>
            /\ wire' = c.wire
            /\ indices' = r.list
            /\ selected' = toDelete
            /\ IF r.err # NoErr
               THEN ret' = Returned(r.err) /\ pc' = "returned"
               ELSE IF NoneSelected(toDelete)
               THEN ret' = Returned(NoMatchErr(pattern)) /\ pc' = "returned"
               ELSE ret' = Running /\ pc' = "delete_send"
            /\ UNCHANGED closed

DeleteIndices_Send ==
    /\ pc = "delete_send"
    /\ \E resp \in Responses :
        /\ requests' = Append(requests, Exchange(DeleteRequest(selected), resp))
        /\ ret' = Returned(DeleteErr(resp))
        /\ closed' = ClusterDelete(resp, selected)
        /\ pc' = "returned"
        /\ UNCHANGED <<args, wire, indices, selected>>

\* ------------------------------------------------------------------------
\* CloseIndices

CloseIndices_List ==
    /\ pc = "idle"
    /\ \E pattern \in Patterns, c \in CatalogResponses :
        /\ CatalogChoice(c)
        /\ LET r == ListIndicesResult(c.resp, c.wire)
               toClose == MatchNames(pattern, r.list)
           IN
            /\ args' = [NoArgs EXCEPT !.op = "CloseIndices", !.pattern = pattern]
            /\ requests' = << Exchange(ListRequest, c.resp) >>
            /\ wire' = c.wire
            /\ indices' = r.list
            /\ selected' = toClose
            /\ IF r.err # NoErr
               THEN ret' = Returned(r.err) /\ pc' = "returned"
               ELSE IF NoneSelected(toClose)
               THEN ret' = Returned(NoMatchErr(pattern)) /\ pc' = "returned"
               ELSE ret' = Running /\ pc' = "close_send"
            /\ UNCHANGED closed

CloseIndices_Send ==
    /\ pc = "close_send"
    /\ \E resp \in Responses :
        /\ requests' = Append(requests, Exchange(CloseRequest(selected), resp))
        /\ ret' = Returned(CloseErr(resp))
        /\ closed' = ClusterClose(resp, selected)
        /\ pc' = "returned"
        /\ UNCHANGED <<args, wire, indices, selected>>

\* ------------------------------------------------------------------------
\* CleanupByAge

CleanupByAge_List ==
    /\ pc = "idle"
    /\ \E prefix \in Prefixes, days \in Days, c \in CatalogResponses :
        /\ CatalogChoice(c)
        /\ LET cut == Cutoff(days)
               r == ListIndicesResult(c.resp, c.wire)
               toDelete == OldNames(prefix, cut, r.list)
           IN
            /\ args' = [NoArgs EXCEPT !.op = "CleanupByAge", !.prefix = prefix,
                                      !.days = days]
            /\ requests' = << Exchange(ListRequest, c.resp) >>
            /\ wire' = c.wire
            /\ indices' = r.list
            /\ selected' = toDelete
            /\ IF r.err # NoErr
               THEN ret' = Returned(r.err) /\ pc' = "returned"
               ELSE IF NoneSelected(toDelete)
               THEN ret' = Returned(NoErr) /\ pc' = "returned"
               ELSE ret' = Running /\ pc' = "cleanup_send"
            /\ UNCHANGED closed

CleanupByAge_Send ==
    /\ pc = "cleanup_send"
    /\ \E resp \in Responses :
        /\ requests' = Append(requests, Exchange(DeleteRequest(selected), resp))
        /\ ret' = Returned(CleanupErr(resp))
        /\ closed' = ClusterDelete(resp, selected)
        /\ pc' = "returned"
        /\ UNCHANGED <<args, wire, indices, selected>>

\* ------------------------------------------------------------------------
\* Methods of one exchange

\* A method that marshals a body, sends one request and checks the answer.
\* errOf maps each response to the error the method returns for it.
OneExchange(newArgs, body, req, errOf) ==
    /\ pc = "idle"
    /\ args' = newArgs
    /\ wire' = <<>>
    /\ indices' = <<>>
    /\ selected' = <<>>
    /\ pc' = "returned"
    /\ UNCHANGED closed
    /\ IF body.err # NoErr
       THEN requests' = <<>> /\ ret' = Returned(body.err)
       ELSE \E resp \in Responses :
               /\ requests' = << Exchange(req, resp) >>
               /\ ret' = Returned(errOf[resp])

ManageAliases ==
    \E actions \in AliasActionLists :
        LET body == AliasesBody(actions) IN
        OneExchange([NoArgs EXCEPT !.op = "ManageAliases"], body,
                    AliasesRequest(body.json),
                    [r \in Responses |-> AliasesErr(r)])

Rollover ==
    \E alias \in { a1, <<"c">> }, conditions \in ConditionMaps :
        LET body == MarshalUnder("conditions", conditions) IN
        OneExchange([NoArgs EXCEPT !.op = "Rollover", !.name = alias], body,
                    RolloverRequest(alias, body.json),
                    [r \in Responses |-> RolloverErr(r)])

Reindex ==
    \E source \in { a1 }, dest \in { c1 }, query \in QueryMaps :
        LET body == ReindexBody(source, dest, query) IN
        OneExchange([NoArgs EXCEPT !.op = "Reindex", !.source = source,
                                   !.target = dest], body,
                    ReindexRequest(body.json),
                    [r \in Responses |-> ReindexErr(r)])

OpenIndex ==
    /\ pc = "idle"
    /\ \E name \in { a1, b1, c1 }, resp \in Responses :
        /\ args' = [NoArgs EXCEPT !.op = "OpenIndex", !.name = name]
        /\ requests' = << Exchange(OpenRequest(name), resp) >>
        /\ ret' = Returned(OpenErr(resp))
        /\ closed' = ClusterOpen(resp, name)
        /\ wire' = <<>>
        /\ indices' = <<>>
        /\ selected' = <<>>
        /\ pc' = "returned"

UpdateIndexSettings ==
    \E name \in { a1, c1 }, settings \in SettingsMaps :
        LET body == MarshalUnder("settings", settings) IN
        OneExchange([NoArgs EXCEPT !.op = "UpdateIndexSettings", !.name = name,
                                   !.settings = settings], body,
                    SettingsRequest(name, body.json),
                    [r \in Responses |-> SettingsErr(r)])

\* ------------------------------------------------------------------------
\* ShrinkIndex.  Its calls of CloseIndices, OpenIndex and UpdateIndexSettings
\* are the exchanges of those methods; their errors come back wrapped.

\* Step 1, first half: CloseIndices(source) lists and selects.
ShrinkIndex_List ==
    /\ pc = "idle"
    /\ \E source \in Sources, target \in Targets, settings \in SettingsMaps,
          c \in ShrinkCatalogResponses :
        /\ CatalogChoice(c)
        /\ LET r == ListIndicesResult(c.resp, c.wire)
               toClose == MatchNames(source, r.list)
           IN
            /\ args' = [NoArgs EXCEPT !.op = "ShrinkIndex", !.source = source,
                                      !.target = target, !.settings = settings]
            /\ requests' = << Exchange(ListRequest, c.resp) >>
            /\ wire' = c.wire
            /\ indices' = r.list
            /\ selected' = toClose
            /\ IF r.err # NoErr
               THEN /\ ret' = Returned(Wrap("failed to close source index: ", r.err))
                    /\ pc' = "returned"
               ELSE IF NoneSelected(toClose)
               THEN /\ ret' = Returned(Wrap("failed to close source index: ",
                                            NoMatchErr(source)))
                    /\ pc' = "returned"
               ELSE ret' = Running /\ pc' = "shrink_close"
            /\ UNCHANGED closed

\* Step 1, second half: the close request; then step 2, the shrink body.
ShrinkIndex_Close ==
    /\ pc = "shrink_close"
    /\ \E resp \in Responses :
        LET err  == CloseErr(resp)
            body == MarshalUnder("settings", ShrinkSettings(args.settings))
        IN
        /\ requests' = Append(requests, Exchange(CloseRequest(selected), resp))
        /\ closed' = ClusterClose(resp, selected)
        /\ IF err # NoErr
           THEN /\ ret' = Returned(Wrap("failed to close source index: ", err))
                /\ pc' = "returned"
           ELSE IF body.err # NoErr
           THEN /\ ret' = Returned(Wrap("failed to marshal shrink settings: ", body.err))
                /\ pc' = "returned"
           ELSE ret' = Running /\ pc' = "shrink_submit"
        /\ UNCHANGED <<args, wire, indices, selected>>

\* Step 3: the shrink request.
ShrinkIndex_Submit ==
    /\ pc = "shrink_submit"
    /\ \E resp \in Responses :
        LET err  == ShrinkErr(resp)
            body == MarshalUnder("settings", ShrinkSettings(args.settings))
        IN
        /\ requests' = Append(requests,
               Exchange(ShrinkRequest(args.source, args.target, body.json), resp))
        /\ IF err # NoErr
           THEN ret' = Returned(err) /\ pc' = "returned"
           ELSE ret' = Running /\ pc' = "shrink_open_source"
        /\ UNCHANGED <<args, wire, indices, selected, closed>>

\* Step 4: OpenIndex(source).
ShrinkIndex_OpenSource ==
    /\ pc = "shrink_open_source"
    /\ \E resp \in Responses :
        LET err == OpenErr(resp) IN
        /\ requests' = Append(requests, Exchange(OpenRequest(args.source), resp))
        /\ closed' = ClusterOpen(resp, args.source)
        /\ IF err # NoErr
           THEN /\ ret' = Returned(Wrap("failed to reopen source index: ", err))
                /\ pc' = "returned"
           ELSE ret' = Running /\ pc' = "shrink_open_target"
        /\ UNCHANGED <<args, wire, indices, selected>>

\* Step 4: OpenIndex(target).
ShrinkIndex_OpenTarget ==
    /\ pc = "shrink_open_target"
    /\ \E resp \in Responses :
        LET err == OpenErr(resp) IN
        /\ requests' = Append(requests, Exchange(OpenRequest(args.target), resp))
        /\ closed' = ClusterOpen(resp, args.target)
        /\ IF err # NoErr
           THEN /\ ret' = Returned(Wrap("failed to open target index: ", err))
                /\ pc' = "returned"
           ELSE ret' = Running /\ pc' = "shrink_settings"
        /\ UNCHANGED <<args, wire, indices, selected>>

\* Step 5: UpdateIndexSettings(target, finalSettings).
ShrinkIndex_Settings ==
    /\ pc = "shrink_settings"
    /\ LET body == MarshalUnder("settings", FinalSettings(args.settings)) IN
        /\ pc' = "returned"
        /\ UNCHANGED <<args, wire, indices, selected, closed>>
        /\ IF body.err # NoErr
           THEN /\ requests' = requests
                /\ ret' = Returned(Wrap("failed to apply final settings: ", body.err))
           ELSE \E resp \in Responses :
                   LET err == SettingsErr(resp) IN
                   /\ requests' = Append(requests,
                          Exchange(SettingsRequest(args.target, body.json), resp))
                   /\ ret' = Returned(IF err # NoErr
                                      THEN Wrap("failed to apply final settings: ", err)
                                      ELSE NoErr)

\* The caller has looked at the error and goes on to its next call.
Continue ==
    /\ pc = "returned"
    /\ pc' = "idle"
    /\ args' = NoArgs
    /\ wire' = <<>>
    /\ indices' = <<>>
    /\ selected' = <<>>
    /\ requests' = <<>>
    /\ ret' = Running
    /\ closed' = {}

Next ==
    \/ Continue
    \/ ListIndices
    \/ DeleteIndices_List
    \/ DeleteIndices_Send
    \/ CloseIndices_List
    \/ CloseIndices_Send
    \/ CleanupByAge_List
    \/ CleanupByAge_Send
    \/ ManageAliases
    \/ Rollover
    \/ Reindex
    \/ OpenIndex
    \/ UpdateIndexSettings
    \/ ShrinkIndex_List
    \/ ShrinkIndex_Close
    \/ ShrinkIndex_Submit
    \/ ShrinkIndex_OpenSource
    \/ ShrinkIndex_OpenTarget
    \/ ShrinkIndex_Settings

Spec == Init /\ [][Next]_vars

\* ------------------------------------------------------------------------
\* Vocabulary of the properties

\* The names a comma-joined target denotes.
RECURSIVE SplitComma(_, _)
SplitComma(s, cur) ==
    IF Len(s) = 0 THEN << cur >>
    ELSE IF s[1] = "," THEN << cur >> \o SplitComma(Tail(s), <<>>)
    ELSE SplitComma(Tail(s), Append(cur, s[1]))

Last(s) == s[Len(s)]

IsList(e)     == e.req.method = "GET"
IsDelete(e)   == e.req.method = "DELETE"
IsClose(e)    == e.req.method = "POST" /\ Last(e.req.path) = "/_close"
IsOpen(e)     == e.req.method = "POST" /\ Last(e.req.path) = "/_open"
IsShrink(e)   == e.req.method = "POST" /\ Contains(e.req.path, "/_shrink/")
IsSettings(e) == e.req.method = "PUT" /\ Last(e.req.path) = "/_settings"

Failed(e) == e.resp.transport \/ e.resp.status >= 400

Count(P(_)) == Cardinality({ i \in 1..Len(requests) : P(requests[i]) })

\* The call received a catalog: its first exchange brought a JSON array.
Listed ==
    /\ Len(requests) >= 1
    /\ IsList(requests[1])
    /\ ~requests[1].resp.transport
    /\ requests[1].resp.body = "array"

WireNames == [i \in 1..Len(wire) |-> wire[i].index]

\* The listed names the pattern matches, in listing order.
Matching(pattern) ==
    LET Hit(n) == Match(pattern, n).matched IN SelectSeq(WireNames, Hit)

\* Target names of a bulk request: the path without its leading "/" and
\* without the trailing action.
BulkTargets(e) ==
    LET p == Tail(e.req.path)
        q == IF Len(p) > 0 /\ Last(p) = "/_close" THEN SubSeq(p, 1, Len(p) - 1) ELSE p
    IN  SplitComma(q, <<>>)

InBulk == args.op \in { "DeleteIndices", "CloseIndices" }
InShrink == args.op = "ShrinkIndex"
InCleanup == args.op = "CleanupByAge"

\* ------------------------------------------------------------------------
\* C1.  As claimed: when the pattern matches no listed name, DeleteIndices
\* and CloseIndices fail with the no-match error and the call has issued no
\* HTTP request whatsoever.
C1_NoRequestAtAll ==
    (pc = "returned" /\ InBulk /\ Listed /\ Matching(args.pattern) = <<>>)
        => /\ ret.err = NoMatchErr(args.pattern)
           /\ requests = <<>>

\* C1, amended.  When the pattern matches no listed name, DeleteIndices and
\* CloseIndices fail with the no-match error, and the only request of the
\* call is the catalog GET that fetched the listing: no DELETE, no close.
C1_NoMatchOnlyLists ==
    (InBulk /\ Listed /\ Matching(args.pattern) = <<>>)
        => /\ pc = "returned"
           /\ ret.err = NoMatchErr(args.pattern)
           /\ Len(requests) = 1
           /\ requests[1].req = ListRequest

C1_Witness ==
    /\ pc = "returned"
    /\ args.op = "DeleteIndices"
    /\ Listed
    /\ Len(wire) = 2
    /\ Matching(args.pattern) = <<>>
    /\ ret.err = NoMatchErr(args.pattern)

\* C2.  When the pattern matches at least one listed name, DeleteIndices and
\* CloseIndices issue exactly one bulk request, and the names it targets are
\* exactly the matched names, once each, in listing order.
C2_OneBulkRequestOfMatches ==
    (pc = "returned" /\ InBulk /\ Listed /\ Matching(args.pattern) # <<>>)
        => /\ Len(requests) = 2
           /\ IF args.op = "DeleteIndices"
              THEN IsDelete(requests[2]) ELSE IsClose(requests[2])
           /\ requests[2].req.path[1] = "/"
           /\ BulkTargets(requests[2]) = Matching(args.pattern)

C2_Witness ==
    /\ pc = "returned"
    /\ args.op = "CloseIndices"
    /\ Listed
    /\ WireNames = << b1, a1 >>
    /\ args.pattern = << "*", "1" >>
    /\ BulkTargets(requests[2]) = << b1, a1 >>

C2_WitnessUnmatchedLeftOut ==
    /\ pc = "returned"
    /\ args.op = "DeleteIndices"
    /\ WireNames = << b1, a2 >>
    /\ Len(requests) = 2
    /\ BulkTargets(requests[2]) = << a2 >>

\* ------------------------------------------------------------------------
\* C3.  Once the close of ShrinkIndex was accepted and the shrink request
\* failed, ShrinkIndex has returned an error; the close was sent once, no
\* open and no settings update was sent, and every index the close named
\* (the source) is still closed.
SubmitFailed ==
    /\ InShrink
    /\ Len(requests) >= 3
    /\ IsClose(requests[2]) /\ ~Failed(requests[2])
    /\ IsShrink(requests[3]) /\ Failed(requests[3])

C3_SubmitFailureLeavesSourceClosed ==
    SubmitFailed
        => /\ pc = "returned"
           /\ ret.err # NoErr
           /\ Len(requests) = 3
           /\ Count(IsClose) = 1
           /\ Count(IsOpen) = 0
           /\ Count(IsSettings) = 0
           /\ \A n \in Range(BulkTargets(requests[2])) : n \in closed

C3_Witness ==
    /\ SubmitFailed
    /\ pc = "returned"
    /\ requests[3].resp.status = 400
    /\ args.source = a1
    /\ a1 \in closed

\* C4.  Once close and shrink were accepted and the reopen of the source
\* failed, ShrinkIndex has returned an error having sent one close, one
\* shrink and one open request, and no settings update.
ReopenFailed ==
    /\ InShrink
    /\ Len(requests) >= 4
    /\ ~Failed(requests[2])
    /\ ~Failed(requests[3])
    /\ IsOpen(requests[4]) /\ Failed(requests[4])

C4_ReopenFailureStopsWorkflow ==
    ReopenFailed
        => /\ pc = "returned"
           /\ ret.err # NoErr
           /\ Len(requests) = 4
           /\ Count(IsClose) = 1
           /\ Count(IsShrink) = 1
           /\ Count(IsOpen) = 1
           /\ requests[4].req = OpenRequest(args.source)
           /\ Count(IsSettings) = 0

C4_Witness ==
    /\ ReopenFailed
    /\ pc = "returned"
    /\ requests[4].resp.status = 503
    /\ args.source = args.target

\* ------------------------------------------------------------------------
\* C5.  As claimed: a call that received any response with status >= 400
\* (the catalog response included) returns an error and no result list.
C5_ErrorStatusFailsTheCall ==
    (pc = "returned"
     /\ \E i \in 1..Len(requests) :
           ~requests[i].resp.transport /\ requests[i].resp.status >= 400)
        => /\ ret.err # NoErr
           /\ ret.list = <<>>

\* ------------------------------------------------------------------------
\* C6.  Whenever ShrinkIndex has sent its final settings update, the body
\* sets index.number_of_replicas to the caller's settings["number_of_replicas"]
\* (null when the caller gave none), clears index.blocks.write, and holds
\* nothing else.
FinalUpdateSent == InShrink /\ Count(IsSettings) >= 1

C6_FinalUpdateRestoresReplicas ==
    FinalUpdateSent =>
        LET e == requests[Len(requests)] IN
        /\ IsSettings(e)
        /\ e.req.hasBody
        /\ DOMAIN e.req.json = { <<"settings", "index.number_of_replicas">>,
                                 <<"settings", "index.blocks.write">> }
        /\ e.req.json[<<"settings", "index.number_of_replicas">>]
              = jsonValue(Lookup(args.settings, "number_of_replicas"))
        /\ e.req.json[<<"settings", "index.blocks.write">>] = <<"null">>

C6_Witness ==
    /\ FinalUpdateSent
    /\ pc = "returned"
    /\ ret.err = NoErr
    /\ "number_of_replicas" \in DOMAIN args.settings
    /\ requests[Len(requests)].req.json[<<"settings", "index.number_of_replicas">>]
          = <<"1">>

\* ------------------------------------------------------------------------
\* C7.  CleanupByAge sends a DELETE exactly when some listed index has a name
\* starting with the prefix and a creation time strictly before now - days;
\* it is then one bulk DELETE of exactly those indices, and when none
\* qualifies the call returns nil.
Qualifying ==
    LET Old(w) == /\ HasPrefix(w.index, args.prefix)
                  /\ ParseTime(w.created) < NowDay - args.days
        old == SelectSeq(wire, Old)
    IN  [i \in 1..Len(old) |-> old[i].index]

C7_CleanupDeletesExactlyTheOld ==
    (pc = "returned" /\ InCleanup)
        => /\ Count(IsDelete) = IF Listed /\ Qualifying # <<>> THEN 1 ELSE 0
           /\ (Listed /\ Qualifying # <<>>)
                 => /\ Len(requests) = 2
                    /\ IsDelete(requests[2])
                    /\ requests[2].req.path[1] = "/"
                    /\ BulkTargets(requests[2]) = Qualifying
           /\ (Listed /\ Qualifying = <<>>) => ret.err = NoErr

C7_Witness ==
    /\ pc = "returned"
    /\ InCleanup
    /\ Listed
    /\ args.days = 30
    /\ Len(wire) = 2
    /\ wire[1].created = [rfc3339 |-> TRUE, day |-> NowDay - 30]
    /\ Qualifying = << b1 >>
    /\ Count(IsDelete) = 1

C7_WitnessNothingOld ==
    /\ pc = "returned"
    /\ InCleanup
    /\ Listed
    /\ Len(wire) = 2
    /\ Qualifying = <<>>
    /\ \E i \in 1..2 : HasPrefix(wire[i].index, args.prefix)
    /\ ret.err = NoErr
    /\ Len(requests) = 1

\* ------------------------------------------------------------------------
\* C8.  Whatever the caller's settings hold, the settings of the shrink
\* request have index.blocks.write = true, index.number_of_replicas = 0 and
\* index.number_of_shards = settings["number_of_shards"]; every other key of
\* the caller keeps its value.  mergeSettings({a:1,b:2},{b:3}) = {a:1,b:3}.
ForcedKeys ==
    { "index.blocks.write", "index.number_of_replicas", "index.number_of_shards" }

ShrinkSent == InShrink /\ Count(IsShrink) >= 1

MergeExample ==
    mergeSettings([k \in { "a", "b" } |-> IF k = "a" THEN GoInt(1) ELSE GoInt(2)],
                  [k \in { "b" } |-> GoInt(3)])
        = [k \in { "a", "b" } |-> IF k = "a" THEN GoInt(1) ELSE GoInt(3)]

C8_ShrinkBodyForcesPreconditions ==
    ShrinkSent =>
        LET j == requests[3].req.json IN
        /\ MergeExample
        /\ IsShrink(requests[3])
        /\ DOMAIN j = { <<"settings", k>> : k \in DOMAIN args.settings \cup ForcedKeys }
        /\ j[<<"settings", "index.blocks.write">>] = <<"true">>
        /\ j[<<"settings", "index.number_of_replicas">>] = <<"0">>
        /\ j[<<"settings", "index.number_of_shards">>]
              = jsonValue(Lookup(args.settings, "number_of_shards"))
        /\ \A k \in DOMAIN args.settings \ ForcedKeys :
              j[<<"settings", k>>] = jsonValue(args.settings[k])

C8_Witness ==
    /\ ShrinkSent
    /\ DOMAIN args.settings = { "index.blocks.write", "index.codec" }
    /\ args.settings["index.blocks.write"] = GoBool(FALSE)
    /\ args.settings["index.codec"]
          = GoStr(<<"b", "<", "\"", "\n", "<0x01>", LineSeparator>>)
    /\ requests[3].req.json[<<"settings", "index.codec">>]
          = <<"\"", "b", "\\", "u", "0", "0", "3", "c", "\\", "\"", "\\", "n",
              "\\", "u", "0", "0", "0", "1", "\\", "u", "2", "0", "2", "8", "\"">>

\* ------------------------------------------------------------------------
\* C9.  In ShrinkIndex the requests other than the catalog GET are, in order,
\* a prefix of: close (of the indices source selects), shrink source->target,
\* open source, open target, settings update of target.  A request is sent
\* only when every earlier one was accepted, and ShrinkIndex returns nil
\* exactly when all five were sent and accepted.
Mutating == LET Mut(e) == ~IsList(e) IN SelectSeq(requests, Mut)

WorkflowPaths ==
    << <<"/">> \o Join(Matching(args.source)) \o <<"/_close">>,
       <<"/">> \o args.source \o <<"/_shrink/">> \o args.target,
       <<"/">> \o args.source \o <<"/_open">>,
       <<"/">> \o args.target \o <<"/_open">>,
       <<"/">> \o args.target \o <<"/_settings">> >>

WorkflowMethods == << "POST", "POST", "POST", "POST", "PUT" >>

C9_ShrinkIsAPrefixOfTheWorkflow ==
    InShrink =>
        LET m == Mutating IN
        /\ Len(m) <= 5
        /\ \A i \in 1..Len(m) :
              /\ m[i].req.method = WorkflowMethods[i]
              /\ m[i].req.path = WorkflowPaths[i]
              /\ i < Len(m) => ~Failed(m[i])
        /\ pc # "returned" => \A i \in 1..Len(m) : ~Failed(m[i])
        /\ pc = "returned" =>
              (ret.err = NoErr <=> (Len(m) = 5 /\ \A i \in 1..5 : ~Failed(m[i])))

C9_Witness ==
    /\ InShrink
    /\ pc = "returned"
    /\ ret.err = NoErr
    /\ Len(Mutating) = 5
    /\ args.source # args.target

C9_WitnessFinalStepFails ==
    /\ InShrink
    /\ pc = "returned"
    /\ ret.err # NoErr
    /\ Len(Mutating) = 5
    /\ Mutating[5].resp.status = 400

\* ------------------------------------------------------------------------
\* C10.  As claimed: for every day count >= 0, a listed index whose creation
\* timestamp does not parse and whose name starts with the prefix is named in
\* the bulk DELETE of CleanupByAge.
Unparsed(i) == ~wire[i].created.rfc3339

UnparsedAlwaysDeleted ==
    \A i \in 1..Len(wire) :
        (Unparsed(i) /\ HasPrefix(wire[i].index, args.prefix))
            => /\ Len(requests) = 2
               /\ IsDelete(requests[2])
               /\ wire[i].index \in Range(BulkTargets(requests[2]))

C10_UnparsedDeletedForAnyDays ==
    (pc = "returned" /\ InCleanup /\ Listed /\ args.days >= 0)
        => UnparsedAlwaysDeleted

\* C10, amended.  ListIndices gives the zero time to an index whose creation
\* timestamp does not parse; for every day count >= 0 that is smaller than
\* the number of days from 0001-01-01 to now (so that the cutoff lies after
\* the zero time), CleanupByAge names the index in its bulk DELETE when its
\* name starts with the prefix, whatever its real age.
C10_UnparsedDeletedWhileCutoffAfterZero ==
    /\ (Listed /\ Len(indices) = Len(wire))
          => \A i \in 1..Len(wire) : Unparsed(i) => indices[i].CreateTime = ZeroTime
    /\ (pc = "returned" /\ InCleanup /\ Listed
        /\ args.days >= 0 /\ args.days < NowDay)
          => UnparsedAlwaysDeleted

C10_Witness ==
    /\ pc = "returned"
    /\ InCleanup
    /\ Listed
    /\ args.days = 30
    /\ Len(requests) = 2
    /\ \E i \in 1..Len(wire) :
          /\ Unparsed(i)
          /\ wire[i].created.day = NowDay
          /\ wire[i].index \in Range(BulkTargets(requests[2]))

====
